---- MODULE Spec2Model ----
(***************************************************************************)
(* Model of the expense tracker's text-to-transaction and query pipeline:  *)
(* src/utils.py (clean_json_string, parse_expense_with_gemini,             *)
(* add_expense, delete_expense, get_chat_response) and src/bot.py          *)
(* (manual_fallback_parse, handle_message).                                *)
(*                                                                         *)
(* Texts are sequences of one-character strings.  The inference service is *)
(* an external source of nondeterminism: the value json.loads yields for   *)
(* its response (or the failure to yield one) is drawn from a finite set.  *)
(* Numbers that arrive in a response are kept as their literal text, so    *)
(* that float() is modelled by what it does.  Amounts are whole numbers.   *)
(***************************************************************************)
EXTENDS Integers, Sequences, FiniteSets, TLC

\* ledger : the stored records, in insertion order
\* now    : the latest reading of the clock
\* nextId : the identifier the store gives to the next insert
\* last   : the message handled last, and what handling it did
\* answer : the outcome of the last get_chat_response call
\* calls  : the delete_expense calls that workers on the same store are in,
\*          each with its position between the find and the delete_one
VARIABLES ledger, now, nextId, last, answer, calls

vars == <<ledger, now, nextId, last, answer, calls>>

(* ------------------------------ bounds -------------------------------- *)

\* Number of records inserted over a run.
MaxInserts == 3

\* Last value of the clock, in ticks.
MaxClock == 3

\* Ticks per calendar day; tick 0 of a day is its midnight.
DayLen == 2

(* ------------------------------ strings ------------------------------- *)

\* Upper-case letter -> lower-case letter, and back.
LowerOf ==
    ("A" :> "a") @@ ("B" :> "b") @@ ("C" :> "c") @@ ("D" :> "d") @@ ("E" :> "e") @@
    ("F" :> "f") @@ ("G" :> "g") @@ ("H" :> "h") @@ ("I" :> "i") @@ ("J" :> "j") @@
    ("K" :> "k") @@ ("L" :> "l") @@ ("M" :> "m") @@ ("N" :> "n") @@ ("O" :> "o") @@
    ("P" :> "p") @@ ("Q" :> "q") @@ ("R" :> "r") @@ ("S" :> "s") @@ ("T" :> "t") @@
    ("U" :> "u") @@ ("V" :> "v") @@ ("W" :> "w") @@ ("X" :> "x") @@ ("Y" :> "y") @@
    ("Z" :> "z")

UpperOf ==
    ("a" :> "A") @@ ("b" :> "B") @@ ("c" :> "C") @@ ("d" :> "D") @@ ("e" :> "E") @@
    ("f" :> "F") @@ ("g" :> "G") @@ ("h" :> "H") @@ ("i" :> "I") @@ ("j" :> "J") @@
    ("k" :> "K") @@ ("l" :> "L") @@ ("m" :> "M") @@ ("n" :> "N") @@ ("o" :> "O") @@
    ("p" :> "P") @@ ("q" :> "Q") @@ ("r" :> "R") @@ ("s" :> "S") @@ ("t" :> "T") @@
    ("u" :> "U") @@ ("v" :> "V") @@ ("w" :> "W") @@ ("x" :> "X") @@ ("y" :> "Y") @@
    ("z" :> "Z")

DigitOf ==
    ("0" :> 0) @@ ("1" :> 1) @@ ("2" :> 2) @@ ("3" :> 3) @@ ("4" :> 4) @@
    ("5" :> 5) @@ ("6" :> 6) @@ ("7" :> 7) @@ ("8" :> 8) @@ ("9" :> 9)

IsUpper(ch) == ch \in DOMAIN LowerOf

IsLower(ch) == ch \in DOMAIN UpperOf

IsCased(ch) == IsLower(ch) \/ IsUpper(ch)

IsDigit(ch) == ch \in DOMAIN DigitOf

IsSpace(ch) == ch \in {" ", "\t", "\n"}

ToLower(ch) == IF IsUpper(ch) THEN LowerOf[ch] ELSE ch

ToUpper(ch) == IF IsLower(ch) THEN UpperOf[ch] ELSE ch

\* str.lower()
StrLower(s) == [k \in 1..Len(s) |-> ToLower(s[k])]

\* str.title(): a cased character is upper-cased when it follows an uncased
\* character (or starts the text) and lower-cased otherwise.
StrTitle(s) ==
    [k \in 1..Len(s) |->
        IF ~IsCased(s[k]) THEN s[k]
        ELSE IF k > 1 /\ IsCased(s[k-1]) THEN ToLower(s[k]) ELSE ToUpper(s[k])]

\* sub in s
Contains(sub, s) ==
    \E k \in 0..(Len(s) - Len(sub)) : SubSeq(s, k + 1, k + Len(sub)) = sub

\* str.strip()
StrStrip(s) ==
    LET keep == {k \in 1..Len(s) : ~IsSpace(s[k])}
    IN  IF keep = {} THEN <<>>
        ELSE SubSeq(s, CHOOSE k \in keep : \A m \in keep : k <= m,
                       CHOOSE k \in keep : \A m \in keep : k >= m)

DigitValue(ch) == DigitOf[ch]

RECURSIVE DigitsValue(_)
DigitsValue(s) ==
    IF s = <<>> THEN 0
    ELSE 10 * DigitsValue(SubSeq(s, 1, Len(s) - 1)) + DigitValue(s[Len(s)])

AllDigits(s) == s # <<>> /\ \A k \in 1..Len(s) : IsDigit(s[k])

\* float(x) succeeds: an optionally signed whole-number literal.
\* Anything else (the text 100/2, null) raises.
FloatOk(s) ==
    \/ AllDigits(s)
    \/ Len(s) > 1 /\ s[1] \in {"-", "+"} /\ AllDigits(Tail(s))

FloatOf(s) ==
    IF s[1] = "-" THEN 0 - DigitsValue(Tail(s))
    ELSE IF s[1] = "+" THEN DigitsValue(Tail(s))
    ELSE DigitsValue(s)

(* ------------------------ values and constants ------------------------ *)

\* A text written as a TLA+ string, as its sequence of characters.
Chars(s) == [k \in 1..Len(s) |-> SubSeq(s, k, k)]

\* None as a parsed_list.  Neither parse_expense_with_gemini nor
\* manual_fallback_parse ever returns an empty list, so the empty sequence
\* is free to stand for None.
None == <<>>

\* The 18 categories of the extraction prompt and of the emoji map.
Taxonomy ==
    { Chars("Food"), Chars("Groceries"), Chars("Travel"), Chars("Medical"),
      Chars("Subscriptions"), Chars("Electronics"), Chars("Shopping"),
      Chars("Education"), Chars("Gifts"), Chars("Outings"),
      Chars("Rent & Utilities"), Chars("Investments"), Chars("Entertainment"),
      Chars("Personal Care"), Chars("Loans/EMI"), Chars("Miscellaneous"),
      Chars("Debt"), Chars("Loan Given") }

\* collection.find(...).limit(300) on the analytical path.
ContextLimit == 300

\* strftime('%Y-%m-%d'): the calendar day of a timestamp.
DayOf(t) == t \div DayLen

\* pd.Timestamp('YYYY-MM-DD'): the midnight that starts a calendar day.
Midnight(day) == day * DayLen

(* -------------------------- clean_json_string ------------------------- *)

\* s.startswith(pre)
StartsWith(s, pre) == Len(s) >= Len(pre) /\ SubSeq(s, 1, Len(pre)) = pre

\* s.replace(pat, ''): the occurrences of pat are taken out, left to right.
RECURSIVE StrRemove(_, _)
StrRemove(s, pat) ==
    IF Len(s) < Len(pat) THEN s
    ELSE IF StartsWith(s, pat) THEN StrRemove(SubSeq(s, Len(pat) + 1, Len(s)), pat)
    ELSE <<Head(s)>> \o StrRemove(Tail(s), pat)

\* s.find(ch) and s.rfind(ch) as positions counted from 1; 0 stands for -1.
Find(s, ch) ==
    IF \E k \in 1..Len(s) : s[k] = ch
    THEN CHOOSE k \in 1..Len(s) : s[k] = ch /\ \A m \in 1..(k - 1) : s[m] # ch
    ELSE 0

RFind(s, ch) ==
    IF \E k \in 1..Len(s) : s[k] = ch
    THEN CHOOSE k \in 1..Len(s) : s[k] = ch /\ \A m \in (k + 1)..Len(s) : s[m] # ch
    ELSE 0

\* The grave accent, which a string of this language cannot hold, as a
\* character of a text; three of them make a fence.
Tick == "grave"

Fence == <<Tick, Tick, Tick>>

\* text.replace(<fence>json, '').replace(<fence>, '').strip()
Unfenced(text) == StrStrip(StrRemove(StrRemove(text, Fence \o Chars("json")), Fence))

CleanJsonString(text) ==
    LET t == Unfenced(text)
    IN  IF StartsWith(t, <<"[">>)
        THEN IF Find(t, "[") # 0 /\ RFind(t, "]") # 0
             THEN SubSeq(t, Find(t, "["), RFind(t, "]"))
             ELSE t
        ELSE IF Find(t, "{") # 0 /\ RFind(t, "}") # 0
             THEN SubSeq(t, Find(t, "{"), RFind(t, "}"))
             ELSE t

(* ------------------- parse_expense_with_gemini ------------------------ *)

\* A decoded response is [kind |-> "error"] (generate_content or json.loads
\* raised), [kind |-> "dict", d |-> e] or [kind |-> "list", items |-> <<e..>>].
\* An element e carries json \in {"object", "number", "array"} and, for an
\* object, any of the keys is_chat, action, i, a, c, n.
HasKey(e, k) == e.json = "object" /\ k \in DOMAIN e

\* data.get("is_chat") is truthy
IsChat(resp) == resp.kind = "dict" /\ HasKey(resp.d, "is_chat") /\ resp.d.is_chat

\* The loop body raises on this element: 'a' not in <number> is a TypeError,
\* float() of a non-numeric value is a ValueError or TypeError.
EntryRaises(e) ==
    \/ e.json = "number"
    \/ HasKey(e, "a") /\ ~FloatOk(e.a)

\* The element as the loop leaves it in valid_data.
NormalizeEntry(e) ==
    [k \in ((DOMAIN e) \ {"json"}) \cup {"n"} |->
        CASE k = "i" -> StrTitle(e.i)
          [] k = "c" -> StrTitle(e.c)
          [] k = "a" -> FloatOf(e.a)
          [] k = "n" -> IF HasKey(e, "n") THEN e.n ELSE <<>>
          [] OTHER   -> e[k]]

RECURSIVE ValidData(_)
ValidData(data) ==
    IF data = <<>> THEN <<>>
    ELSE IF ~HasKey(Head(data), "a") THEN ValidData(Tail(data))
    ELSE <<NormalizeEntry(Head(data))>> \o ValidData(Tail(data))

ParseExpenseWithGemini(resp) ==
    IF resp.kind = "error" THEN None
    ELSE IF IsChat(resp) THEN None
    ELSE LET data == IF resp.kind = "dict" THEN <<resp.d>> ELSE resp.items
         IN  IF \E k \in 1..Len(data) : EntryRaises(data[k]) THEN None
             ELSE ValidData(data)

(* ----------------------- manual_fallback_parse ------------------------ *)

\* \d+(\.\d+)?
IsNumber(s) ==
    \/ AllDigits(s)
    \/ \E p \in 2..(Len(s) - 1) :
          /\ s[p] = "."
          /\ AllDigits(SubSeq(s, 1, p - 1))
          /\ AllDigits(SubSeq(s, p + 1, Len(s)))

\* Where $ matches after a digit: the end of the text, or just before a
\* final newline.
TextEnd(text) ==
    IF text # <<>> /\ text[Len(text)] = "\n" THEN Len(text) - 1 ELSE Len(text)

\* The pairs <<i, j>> for which ^(.+?)\s+(\d+(\.\d+)?)$ matches with group 1
\* = text[1..i], the white space = text[i+1..j] and group 2 = text[j+1..end].
FallbackSplits(text) ==
    {sp \in (1..Len(text)) \X (1..Len(text)) :
        /\ sp[1] < sp[2] /\ sp[2] < TextEnd(text)
        /\ \A k \in 1..sp[1] : text[k] # "\n"
        /\ \A k \in (sp[1] + 1)..sp[2] : IsSpace(text[k])
        /\ IsNumber(SubSeq(text, sp[2] + 1, TextEnd(text)))}

\* float(match.group(2)); the texts of this model carry whole numbers, a
\* fractional part is outside its number domain.
NumberValue(s) ==
    IF AllDigits(s) THEN DigitsValue(s)
    ELSE DigitsValue(SubSeq(s, 1, (CHOOSE p \in 1..Len(s) : s[p] = ".") - 1))

\* Variant of ManualFallbackParse: the item is not title-cased.
ManualFallbackParseAsTyped(text) ==
    IF FallbackSplits(text) = {} THEN None
    ELSE LET sp == CHOOSE x \in FallbackSplits(text) :
                       \A y \in FallbackSplits(text) : x[1] <= y[1]
         IN  << [action |-> "add",
                 i |-> StrStrip(SubSeq(text, 1, sp[1])),
                 a |-> NumberValue(SubSeq(text, sp[2] + 1, TextEnd(text))),
                 c |-> Chars("Miscellaneous"),
                 n |-> Chars("Manual Fallback")] >>

ManualFallbackParse(text) ==
    IF FallbackSplits(text) = {} THEN None
    ELSE LET sp == CHOOSE x \in FallbackSplits(text) :
                       \A y \in FallbackSplits(text) : x[1] <= y[1]
         IN  << [action |-> "add",
                 i |-> StrTitle(StrStrip(SubSeq(text, 1, sp[1]))),
                 a |-> NumberValue(SubSeq(text, sp[2] + 1, TextEnd(text))),
                 c |-> Chars("Miscellaneous"),
                 n |-> Chars("Manual Fallback")] >>

(* ------------------------------ ledger -------------------------------- *)

\* add_expense: data['i'] or data['c'] missing is a KeyError before the insert.
AddRaises(data) == ~("i" \in DOMAIN data) \/ ~("c" \in DOMAIN data)

AddExpense(L, data, id, t) ==
    Append(L, [id |-> id, i |-> data.i, a |-> data.a, c |-> data.c,
               n |-> IF "n" \in DOMAIN data THEN data.n ELSE <<>>,
               date |-> t])

\* {"$regex": pat, "$options": "i"}: an unanchored, case-insensitive search.
\* Of the metacharacters only "." (any character but a newline) is modelled.
RegexSearch(pat, s) ==
    \E k \in 0..(Len(s) - Len(pat)) :
        \A m \in 1..Len(pat) :
            \/ pat[m] = "." /\ s[k + m] # "\n"
            \/ ToLower(pat[m]) = ToLower(s[k + m])

\* collection.find(query): positions of the records the query selects.
Matches(L, data) ==
    {k \in 1..Len(L) : L[k].a = data.a /\ RegexSearch(data.i, L[k].i)}

\* Variant of LatestMatches: the sort by date is left out.
AnyMatches(L, data) == Matches(L, data)

\* matches[0] after .sort("date", -1): a match of the greatest date.  The
\* store leaves the order of equal dates open; pick chooses among them.
LatestMatches(L, data) ==
    {k \in Matches(L, data) : \A m \in Matches(L, data) : L[m].date <= L[k].date}

RECURSIVE NthSmallest(_, _)
NthSmallest(S, n) ==
    LET lo == CHOOSE x \in S : \A y \in S : x <= y
    IN  IF n <= 1 THEN lo ELSE NthSmallest(S \ {lo}, n - 1)

\* Variant of Target: the matches are sorted with dates ascending, so that
\* matches[0] is a match of the least date.
OldestTarget(L, data, pick) ==
    LET T == {k \in Matches(L, data) : \A m \in Matches(L, data) : L[k].date <= L[m].date}
    IN  NthSmallest(T, ((pick - 1) % Cardinality(T)) + 1)

Target(L, data, pick) ==
    LET T == LatestMatches(L, data)
    IN  NthSmallest(T, ((pick - 1) % Cardinality(T)) + 1)

RemoveAt(L, k) == SubSeq(L, 1, k - 1) \o SubSeq(L, k + 1, Len(L))

\* delete_one({"_id": id})
DeleteOne(L, id) ==
    IF \E k \in 1..Len(L) : L[k].id = id
    THEN RemoveAt(L, CHOOSE k \in 1..Len(L) : L[k].id = id)
    ELSE L

\* Variant of DeleteExpense: the query leaves out the item name.
DeleteExpenseByAmount(L, data, pick) ==
    LET M == {k \in 1..Len(L) : L[k].a = data.a}
    IN  IF M # {}
        THEN LET target == L[CHOOSE k \in M : \A m \in M : L[m].date <= L[k].date]
             IN  [ledger |-> DeleteOne(L, target.id), found |-> TRUE,
                  item |-> target.i, date |-> target.date, id |-> target.id]
        ELSE [ledger |-> L, found |-> FALSE, item |-> <<>>, date |-> 0 - 1, id |-> 0]

\* None as the date delete_expense returns.
NoDate == 0 - 1

\* delete_expense: the ledger it leaves, found, and target['i'], target['date'].
DeleteExpense(L, data, pick) ==
    IF Matches(L, data) # {}
    THEN LET target == L[Target(L, data, pick)]
         IN  [ledger |-> DeleteOne(L, target.id), found |-> TRUE,
              item |-> target.i, date |-> target.date, id |-> target.id]
    ELSE [ledger |-> L, found |-> FALSE, item |-> None, date |-> NoDate, id |-> 0]

(* -------------------------- get_chat_response ------------------------- *)

\* format_transactions: json.dumps of the rows, a text.  Each row keeps the
\* calendar day of its date under the key Date.
FormatTransactions(rows) ==
    [kind |-> "str",
     rows |-> [k \in 1..Len(rows) |->
                  [Date |-> DayOf(rows[k].date), Item |-> rows[k].i,
                   Amount |-> rows[k].a, Category |-> rows[k].c]]]

\* The value of a filter key that is absent, null or empty: filters.get(key)
\* is falsy.
NoDay == 0 - 1

RECURSIVE SumAmounts(_)
SumAmounts(rows) ==
    IF rows = <<>> THEN 0 ELSE Head(rows).a + SumAmounts(Tail(rows))

RECURSIVE SelectRows(_, _)
SelectRows(rows, keep) ==
    IF rows = <<>> THEN <<>>
    ELSE IF Head(rows).id \in keep
         THEN <<Head(rows)>> \o SelectRows(Tail(rows), keep)
         ELSE SelectRows(Tail(rows), keep)

\* filtered_df['date'] >= filters['start_date']: the bound is the midnight
\* that starts the day.
StartKeeps(f, row) == f.start_date = NoDay \/ row.date >= Midnight(f.start_date)

\* filtered_df['date'] <= filters['end_date']
EndKeeps(f, row) == f.end_date = NoDay \/ row.date <= Midnight(f.end_date)

\* .str.lower().isin([x.lower() for x in filters['categories']])
CategoryKeeps(f, row) ==
    \/ f.categories = <<>>
    \/ \E k \in 1..Len(f.categories) : StrLower(f.categories[k]) = StrLower(row.c)

FilterRows(f, rows) ==
    SelectRows(rows, {rows[k].id : k \in {m \in 1..Len(rows) :
        StartKeeps(f, rows[m]) /\ EndKeeps(f, rows[m]) /\ CategoryKeeps(f, rows[m])}})

\* filtered_df.groupby('c')['a'].sum().to_dict()
CatGroup(rows) ==
    [c \in {rows[k].c : k \in 1..Len(rows)} |->
        SumAmounts(SelectRows(rows, {rows[k].id : k \in {m \in 1..Len(rows) : rows[m].c = c}}))]

\* What one call returns or raises, with the values it computed on the way:
\* kind is "nodata", "raise" (an exception leaves the function), "error" (the
\* Calculation Error text) or "answer"; fr is the decoded filter answer,
\* kept is filtered_df and total is total_sum.
\* breakdown is breakdown_text, where the call has computed it.
NoBreakdown == [shape |-> "none"]

ChatOutcome(kind, fr, kept, total) ==
    [kind |-> kind, fr |-> fr, kept |-> kept, total |-> total,
     breakdown |-> NoBreakdown]

\* Variant of DateDescending: the rows are sorted with dates ascending.
DateAscending(rows) ==
    { [k \in 1..Len(rows) |-> rows[p[k]]] :
        p \in { q \in Permutations(1..Len(rows)) :
                  \A k \in 1..(Len(rows) - 1) : rows[q[k]].date <= rows[q[k + 1]].date } }

\* filtered_df.sort_values(by='date', ascending=False): the orders of the
\* rows with dates descending; rows of equal date come in any order.
DateDescending(rows) ==
    { [k \in 1..Len(rows) |-> rows[p[k]]] :
        p \in { q \in Permutations(1..Len(rows)) :
                  \A k \in 1..(Len(rows) - 1) : rows[q[k]].date >= rows[q[k + 1]].date } }

\* The values breakdown_text may take: details[['date', 'i', 'a']] for the
\* intent breakdown, the dictionary cat_group for any other.
BreakdownTexts(f, kept) ==
    IF f.intent = "breakdown"
    THEN { [shape |-> "details",
            rows |-> [k \in 1..Len(d) |-> [date |-> d[k].date, i |-> d[k].i, a |-> d[k].a]]] :
              d \in DateDescending(kept) }
    ELSE { [shape |-> "groups", groups |-> CatGroup(kept)] }

NoFilter == [kind |-> "none"]

\* Variant of GetChatResponse: the check for an empty data_list is left out,
\* so that df['date'] of the empty frame raises KeyError before the try block.
GetChatResponseNoEmptyCheck(data_list, fresps, finals) ==
    IF data_list.kind = "str" \/ data_list.rows = <<>>
    THEN {ChatOutcome("raise", NoFilter, <<>>, 0)}
    ELSE UNION {IF fr.kind = "error"
                THEN {ChatOutcome("error", fr, <<>>, 0)}
                ELSE {[ChatOutcome(IF ok THEN "answer" ELSE "error", fr, kept,
                                   SumAmounts(kept)) EXCEPT !.breakdown = b] :
                        kept \in {FilterRows(fr.f, data_list.rows)},
                        b \in BreakdownTexts(fr.f, FilterRows(fr.f, data_list.rows))}
                : fr \in fresps, ok \in finals}

\* The outcomes of get_chat_response(query, data_list).  data_list is
\* [kind |-> "list", rows |-> ...] or the text [kind |-> "str", rows |-> ...];
\* pd.DataFrame(<text>) raises ValueError before the try block.  fresps are
\* the decoded answers the filter inference may give, finals whether the
\* formatting inference answers.
GetChatResponse(data_list, fresps, finals) ==
    IF data_list.kind = "list" /\ data_list.rows = <<>>
    THEN {ChatOutcome("nodata", NoFilter, <<>>, 0)}
    ELSE IF data_list.kind = "str"
    THEN {ChatOutcome("raise", NoFilter, <<>>, 0)}
    ELSE UNION {IF fr.kind = "error"
                THEN {ChatOutcome("error", fr, <<>>, 0)}
                ELSE {[ChatOutcome(IF ok THEN "answer" ELSE "error", fr, kept,
                                   SumAmounts(kept)) EXCEPT !.breakdown = b] :
                        kept \in {FilterRows(fr.f, data_list.rows)},
                        b \in BreakdownTexts(fr.f, FilterRows(fr.f, data_list.rows))}
                : fr \in fresps, ok \in finals}

(* --------------------------- handle_message --------------------------- *)

\* Variant of ForcedChat: the word total is not looked for.
ForcedChatNoTotal(text) ==
    \/ Contains(Chars("?"), text)
    \/ Contains(Chars("how"), StrLower(text))

\* "?" in user_text or "how" in text_lower or "total" in text_lower
ForcedChat(text) ==
    \/ Contains(Chars("?"), text)
    \/ Contains(Chars("how"), StrLower(text))
    \/ Contains(Chars("total"), StrLower(text))

\* parsed_list after steps 1 and 2.
ParsedList(text, resp) ==
    IF ParseExpenseWithGemini(resp) = None
    THEN ManualFallbackParse(text)
    ELSE ParseExpenseWithGemini(resp)

\* data.get('action') == 'delete'
IsDelete(data) == "action" \in DOMAIN data /\ data.action = "delete"

\* Variant of ApplyBatch: an entry that raises is passed over and the loop
\* goes on with the entries after it.
RECURSIVE ApplyBatchPastFailure(_, _, _, _, _)
ApplyBatchPastFailure(parsed, k, st, adv, pick) ==
    IF k > Len(parsed) THEN st
    ELSE LET data == parsed[k]
         IN  IF IsDelete(data)
             THEN IF ~("i" \in DOMAIN data)
                  THEN ApplyBatchPastFailure(parsed, k + 1,
                           [st EXCEPT !.raised = TRUE], adv, pick)
                  ELSE LET r == DeleteExpense(st.ledger, data, pick)
                       IN  ApplyBatchPastFailure(parsed, k + 1,
                             [st EXCEPT !.ledger = r.ledger,
                                !.log = Append(@, [op |-> "delete", data |-> data,
                                    before |-> st.ledger, after |-> r.ledger,
                                    found |-> r.found, item |-> r.item,
                                    date |-> r.date, id |-> r.id])],
                             adv, pick)
             ELSE IF AddRaises(data)
                  THEN ApplyBatchPastFailure(parsed, k + 1,
                           [st EXCEPT !.raised = TRUE], adv, pick)
                  ELSE LET t  == st.now + adv[((k - 1) % Len(adv)) + 1]
                           L2 == AddExpense(st.ledger, data, st.nextId, t)
                       IN  ApplyBatchPastFailure(parsed, k + 1,
                             [st EXCEPT !.ledger = L2, !.now = t, !.nextId = @ + 1,
                                !.log = Append(@, [op |-> "add", data |-> data,
                                    before |-> st.ledger, after |-> L2,
                                    found |-> FALSE, item |-> None,
                                    date |-> t, id |-> st.nextId])],
                             adv, pick)

\* The loop over parsed_list from entry k on.  st carries the ledger, the
\* next identifier, the clock, whether an exception ended the loop, and the
\* calls made so far.  adv[k] is how far the clock has moved when entry k
\* reads it, pick the store's order among equal dates.
RECURSIVE ApplyBatch(_, _, _, _, _)
ApplyBatch(parsed, k, st, adv, pick) ==
    IF k > Len(parsed) \/ st.raised THEN st
    ELSE LET data == parsed[k]
         IN  IF IsDelete(data)
             THEN IF ~("i" \in DOMAIN data)
                  THEN [st EXCEPT !.raised = TRUE]
                  ELSE LET r == DeleteExpense(st.ledger, data, pick)
                       IN  ApplyBatch(parsed, k + 1,
                             [st EXCEPT !.ledger = r.ledger,
                                !.log = Append(@, [op |-> "delete", data |-> data,
                                    before |-> st.ledger, after |-> r.ledger,
                                    found |-> r.found, item |-> r.item,
                                    date |-> r.date, id |-> r.id])],
                             adv, pick)
             ELSE IF AddRaises(data)
                  THEN [st EXCEPT !.raised = TRUE]
                  ELSE LET t  == st.now + adv[((k - 1) % Len(adv)) + 1]
                           L2 == AddExpense(st.ledger, data, st.nextId, t)
                       IN  ApplyBatch(parsed, k + 1,
                             [st EXCEPT !.ledger = L2, !.now = t, !.nextId = @ + 1,
                                !.log = Append(@, [op |-> "add", data |-> data,
                                    before |-> st.ledger, after |-> L2,
                                    found |-> FALSE, item |-> None,
                                    date |-> t, id |-> st.nextId])],
                             adv, pick)

\* collection.find({}, {"_id": 0}).sort("date", -1).limit(300); equal dates
\* are listed newest insert first.
RECURSIVE SortDesc(_)
SortDesc(L) ==
    IF L = <<>> THEN <<>>
    ELSE LET k == CHOOSE x \in 1..Len(L) :
                     \A y \in 1..Len(L) :
                        L[y].date < L[x].date \/ (L[y].date = L[x].date /\ y <= x)
         IN  <<L[k]>> \o SortDesc(RemoveAt(L, k))

FindRecent(L) == SubSeq(SortDesc(L), 1, IF Len(L) < ContextLimit THEN Len(L) ELSE ContextLimit)

(* ----------------------------- inputs --------------------------------- *)

Obj(action, i, a, c) ==
    [json |-> "object", action |-> action, i |-> Chars(i), a |-> Chars(a), c |-> Chars(c)]

eTea     == Obj("add", "tea", "5", "food")
eTeapot  == Obj("add", "Teapot", "5", "Loans/EMI")
ePets    == Obj("add", "cat food", "7", "Pets")
eZero    == Obj("add", "water", "0", "Food")
eFrac    == Obj("add", "pizza", "100/2", "Food")
eNoAmt   == [json |-> "object", action |-> "add", i |-> Chars("lunch"), c |-> Chars("Food")]
eNoCat   == [json |-> "object", action |-> "add", i |-> Chars("bus"), a |-> Chars("7")]
eNoItem  == [json |-> "object", action |-> "delete", a |-> Chars("5")]
eTaCup   == Obj("add", "t.a cup", "5", "Food")
eDelTe   == [json |-> "object", action |-> "delete", i |-> Chars("te"), a |-> Chars("5")]
eDelDot  == [json |-> "object", action |-> "delete", i |-> Chars("t.a"), a |-> Chars("5")]
eDelNone == [json |-> "object", action |-> "delete", i |-> Chars("rent"), a |-> Chars("5")]
eDebtNeg == Obj("add", "bob", "-500", "debt")
eNumber  == [json |-> "number"]
eArray   == [json |-> "array"]

List(items) == [kind |-> "list", items |-> items]

ErrorResp == [kind |-> "error"]

ChatResp == [kind |-> "dict", d |-> [json |-> "object", is_chat |-> TRUE]]

\* Message texts and decoded answers of the extraction inference, for the
\* routing of a message.
RouteMessages ==
    { Chars("tea 5"), Chars("tea"), Chars("total 5"), Chars("show tea 5"),
      Chars("tea? 5"), Chars("dashboard") }

RouteResponses == { ErrorResp, ChatResp, List(<<eTea>>), List(<<eDelTe>>) }

\* ... for the decoding and validation of an answer.
ParseMessages == { Chars("tea") }

ParseResponses ==
    { ErrorResp, ChatResp, [kind |-> "dict", d |-> eTea] }
    \cup { List(<<e>>) : e \in {eTea, eTeapot, ePets, eZero, eFrac, eNoAmt, eNoCat,
                                eNoItem, eDelTe, eNumber, eArray, eDebtNeg} }
    \cup { List(<<eTea, eNoCat>>), List(<<eNoCat, eTea>>), List(<<eFrac, eTea>>),
           List(<<eNoAmt, eTea>>), List(<<eZero, eTea>>), List(<<eArray, eTea>>),
           List(<<eNumber, eTea>>) }

\* ... for deletes against a ledger of several records.
DeleteMessages == { Chars("tea") }

DeleteResponses ==
    { List(<<e>>) : e \in {eTea, eTaCup, eDelTe, eDelDot, eDelNone} }
    \cup { List(<<eTea, eDelTe>>), List(<<eDelNone, eDelNone>>),
           List(<<eDelTe, eDelTe>>) }

\* ... for batches of several entries, one of which may fail.
BatchMessages == { Chars("tea") }

BatchResponses ==
    { List(<<eTea>>), List(<<eTea, eNoCat, eTea>>), List(<<eNoCat, eTea>>),
      List(<<eTea, eNoItem, eTea>>), List(<<eTea, eDelTe>>), List(<<eDelTe, eTea>>),
      List(<<eTaCup, eDelTe>>) }

\* Number of generate_content calls whose results a service script fixes.
MaxCalls == 4

\* The results of the successive generate_content calls of one request:
\* "fail" (the call raises) or "ok" (it answers with decodable text).
ServiceScripts == [1..MaxCalls -> {"fail", "ok"}]

\* ... for an inference service that fails now and then: the decoded answer
\* of the extraction is what the first call of the script gives.
RetryMessages == { Chars("tea 5"), Chars("tea") }

RetryResponses ==
    { IF sc[1] = "ok" THEN [kind |-> "list", items |-> <<eTea>>, script |-> sc]
                      ELSE [kind |-> "error", script |-> sc] : sc \in ServiceScripts }

Messages ==
    RouteMessages \cup ParseMessages \cup DeleteMessages \cup BatchMessages
        \cup RetryMessages

Responses ==
    RouteResponses \cup ParseResponses \cup DeleteResponses \cup BatchResponses
        \cup RetryResponses

\* parsed_list for every input, worked out once.
ParsedTable == [t \in Messages, r \in Responses |-> ParsedList(t, r)]

ForcedTable == [t \in Messages |-> ForcedChat(t)]

\* How far the clock has moved when each entry of a batch of n reads it.
Advances(n) == [1..n -> {0, 1}]

(* ------------------------------ actions ------------------------------- *)

NoAnswer == ChatOutcome("none", NoFilter, <<>>, 0)

\* The workers that share the store, none of them inside delete_expense.
Workers == {"w1", "w2"}

NoCalls == [w \in Workers |-> [pc |-> "idle"]]

Init ==
    /\ ledger = <<>>
    /\ now = 0
    /\ nextId = 1
    /\ last = [text |-> <<>>, resp |-> ErrorResp, before |-> <<>>,
               path |-> "init", raised |-> FALSE, log |-> <<>>]
    /\ answer = NoAnswer
    /\ calls = NoCalls

\* Step 3 of handle_message: the analytical path.
Analyse(text, resp) ==
    IF Contains(Chars("dashboard"), StrLower(text))
    THEN /\ last' = [text |-> text, resp |-> resp, before |-> ledger,
                     path |-> "dashboard", raised |-> FALSE, log |-> <<>>]
         /\ answer' = NoAnswer
    ELSE IF FindRecent(ledger) = <<>>
    THEN /\ last' = [text |-> text, resp |-> resp, before |-> ledger,
                     path |-> "nodata", raised |-> FALSE, log |-> <<>>]
         /\ answer' = NoAnswer
    ELSE \E ans \in GetChatResponse(FormatTransactions(FindRecent(ledger)),
                                    {ErrorResp}, BOOLEAN) :
            /\ last' = [text |-> text, resp |-> resp, before |-> ledger,
                        path |-> "analysis", raised |-> (ans.kind = "raise"),
                        log |-> <<>>]
            /\ answer' = ans

\* Step 4 of handle_message: the loop over parsed_list.
Save(text, resp, parsed) ==
    \E adv \in Advances(Len(parsed)), pick \in 1..MaxInserts :
        \E st \in {ApplyBatch(parsed, 1,
                     [ledger |-> ledger, nextId |-> nextId, now |-> now,
                      raised |-> FALSE, log |-> <<>>], adv, pick)} :
            /\ st.now <= MaxClock
            /\ st.nextId <= MaxInserts + 1
            /\ ledger' = st.ledger
            /\ now' = st.now
            /\ nextId' = st.nextId
            /\ last' = [text |-> text, resp |-> resp, before |-> ledger,
                        path |-> "transaction", raised |-> st.raised, log |-> st.log]
            /\ answer' = NoAnswer

\* handle_message for one text and one decoded answer of the extraction.
HandleMessage(text, resp) ==
    /\ IF ParsedTable[text, resp] = None \/ ForcedTable[text]
       THEN Analyse(text, resp) /\ UNCHANGED <<ledger, now, nextId>>
       ELSE Save(text, resp, ParsedTable[text, resp])
    /\ UNCHANGED calls

HandleRoute == \E text \in RouteMessages, resp \in RouteResponses : HandleMessage(text, resp)

HandleParse == \E text \in ParseMessages, resp \in ParseResponses : HandleMessage(text, resp)

HandleDelete == \E text \in DeleteMessages, resp \in DeleteResponses : HandleMessage(text, resp)

SpecRoute == Init /\ [][HandleRoute]_vars

SpecParse == Init /\ [][HandleParse]_vars

SpecDelete == Init /\ [][HandleDelete]_vars

HandleBatch == \E text \in BatchMessages, resp \in BatchResponses : HandleMessage(text, resp)

SpecBatch == Init /\ [][HandleBatch]_vars

(* ---------------- get_chat_response on stored records ----------------- *)

\* Rows handed to get_chat_response as the store holds them.
MaxRows == 2

Days == 0..DayOf(MaxClock)

RowOf(a, c, t) ==
    [id |-> 0, i |-> Chars("Item"), a |-> a, c |-> c, n |-> <<>>, date |-> t]

RowValues ==
    { RowOf(a, c, t) : a \in {100, 0 - 50}, c \in {Chars("Food"), Chars("Travel")},
                       t \in 0..MaxClock }

\* Record lists with identifiers 1..n, dates in insertion order.
QueryLedgers ==
    UNION { { [k \in 1..n |-> [rows[k] EXCEPT !.id = k]] :
                rows \in { r \in [1..n -> RowValues] :
                             \A k \in 1..(n - 1) : r[k].date <= r[k + 1].date } }
            : n \in 0..MaxRows }

\* Decoded answers of the filter inference.
FilterResps ==
    { ErrorResp } \cup
    { [kind |-> "dict",
       f |-> [categories |-> cs, start_date |-> sd, end_date |-> ed, intent |-> it]] :
         cs \in { <<>>, <<Chars("food")>>, <<Chars("Travel"), Chars("FOOD")>> },
         sd \in Days \cup {NoDay}, ed \in Days \cup {NoDay},
         it \in {"summary", "breakdown"} }

InitQuery ==
    /\ ledger \in QueryLedgers
    /\ now = MaxClock
    /\ nextId = Len(ledger) + 1
    /\ last = [text |-> <<>>, resp |-> ErrorResp, before |-> <<>>,
               path |-> "init", raised |-> FALSE, log |-> <<>>]
    /\ answer = NoAnswer
    /\ calls = NoCalls

\* One call of get_chat_response on the given records; answer holds what
\* the call returned once it has been made.
Query ==
    /\ answer = NoAnswer
    /\ \E ans \in GetChatResponse([kind |-> "list", rows |-> ledger],
                                  FilterResps, BOOLEAN) : answer' = ans
    /\ UNCHANGED <<ledger, now, nextId, last, calls>>

SpecQuery == InitQuery /\ [][Query]_vars

(* ------------- the inference service failing now and then ------------- *)

\* The decoded answer of the filter inference under a script: none when the
\* call fails, else a filter without bounds.
ScriptFilter(sc) ==
    IF sc[1] = "ok"
    THEN [kind |-> "dict",
          f |-> [categories |-> <<>>, start_date |-> NoDay, end_date |-> NoDay,
                 intent |-> "summary"]]
    ELSE ErrorResp

HandleRetry == \E text \in RetryMessages, resp \in RetryResponses : HandleMessage(text, resp)

\* get_chat_response on the stored records: the filter inference is the
\* first call of the script, the formatting inference the second.
ChatRetry ==
    \E sc \in ServiceScripts :
        /\ \E ans \in GetChatResponse([kind |-> "list", rows |-> ledger],
                                      {ScriptFilter(sc)}, {sc[2] = "ok"}) :
              answer' = ans
        /\ last' = [text |-> Chars("total"), resp |-> [kind |-> "script", script |-> sc],
                    before |-> ledger, path |-> "chat", raised |-> FALSE, log |-> <<>>]
        /\ UNCHANGED <<ledger, now, nextId, calls>>

SpecRetry == Init /\ [][HandleRetry \/ ChatRetry]_vars

(* --------------- clean_json_string on response texts ------------------ *)

\* The text of an inference response: a JSON payload with what the service
\* puts before and after it.
Prefixes ==
    { <<>>, Fence \o Chars("json\n"), Fence \o Chars("\n"), Chars("Here you go: "),
      Chars("Sure.\n") \o Fence \o Chars("json\n") }

Payloads ==
    { [several |-> TRUE,  json |-> Chars("[{\"i\":\"tea\",\"a\":5},{\"i\":\"bus\",\"a\":7}]")],
      [several |-> TRUE,  json |-> Chars("[ {\"a\": 5}, {\"a\": 7}, {\"a\": 9} ]")],
      [several |-> FALSE, json |-> Chars("[{\"i\":\"tea\",\"a\":5}]")],
      [several |-> FALSE, json |-> Chars("{\"is_chat\": true}")] }

Suffixes ==
    { <<>>, Chars("\n") \o Fence, Chars("\n"), Chars(" Hope this helps."),
      Chars("\n") \o Fence \o Chars("\nDone.") }

RawResponses ==
    { [kind |-> "raw", pre |-> pre, payload |-> pl, post |-> post] :
        pre \in Prefixes, pl \in Payloads, post \in Suffixes }

\* response.text
ResponseText(raw) == raw.pre \o raw.payload.json \o raw.post

InitClean ==
    /\ ledger = <<>>
    /\ now = 0
    /\ nextId = 1
    /\ \E raw \in RawResponses :
          last = [text |-> <<>>, resp |-> raw, before |-> <<>>,
                  path |-> "init", raised |-> FALSE, log |-> <<>>]
    /\ answer = NoAnswer
    /\ calls = NoCalls

\* One call of clean_json_string on the response text.
Clean ==
    /\ answer = NoAnswer
    /\ answer' = [kind |-> "cleaned", text |-> CleanJsonString(ResponseText(last.resp))]
    /\ UNCHANGED <<ledger, now, nextId, last, calls>>

SpecClean == InitClean /\ [][Clean]_vars

(* ------------- delete_expense by workers that share the store --------- *)

StoredRow(i, t) ==
    [id |-> 0, i |-> Chars(i), a |-> 5, c |-> Chars("Food"), n |-> <<>>, date |-> t]

\* Record lists with identifiers 1..n, dates in insertion order.
RaceLedgers ==
    UNION { { [k \in 1..n |-> [rows[k] EXCEPT !.id = k]] :
                rows \in { r \in [1..n -> { StoredRow(i, t) : i \in {"Tea", "T.A Cup"},
                                                              t \in 0..MaxClock }] :
                             \A k \in 1..(n - 1) : r[k].date <= r[k + 1].date } }
            : n \in 0..MaxRows }

\* The delete entries the workers are called with.
RaceRequests == { ValidData(<<e>>)[1] : e \in {eDelTe, eDelDot, eDelNone} }

InitRace ==
    /\ ledger \in RaceLedgers
    /\ now = MaxClock
    /\ nextId = Len(ledger) + 1
    /\ last = [text |-> <<>>, resp |-> ErrorResp, before |-> <<>>,
               path |-> "init", raised |-> FALSE, log |-> <<>>]
    /\ answer = NoAnswer
    /\ calls = NoCalls

\* delete_expense up to and including collection.find(query).sort(...): with
\* a match the worker holds matches[0] as its target, with none it returns
\* (False, None, None).
FindStep(w) ==
    /\ calls[w].pc = "idle"
    /\ \E data \in RaceRequests, pick \in 1..MaxRows :
          calls' = [calls EXCEPT ![w] =
              IF Matches(ledger, data) # {}
              THEN [pc |-> "found", data |-> data,
                    target |-> ledger[Target(ledger, data, pick)]]
              ELSE [pc |-> "done", data |-> data, found |-> FALSE, item |-> None,
                    date |-> NoDate, id |-> 0, removed |-> 0]]
    /\ UNCHANGED <<ledger, now, nextId, last, answer>>

\* collection.delete_one({"_id": target["_id"]}) and the return of
\* (True, target['i'], target['date']); removed is the number of records the
\* delete_one took out, which the code does not look at.
DeleteStep(w) ==
    /\ calls[w].pc = "found"
    /\ ledger' = DeleteOne(ledger, calls[w].target.id)
    /\ calls' = [calls EXCEPT ![w] =
          [pc |-> "done", data |-> calls[w].data, found |-> TRUE,
           item |-> calls[w].target.i, date |-> calls[w].target.date,
           id |-> calls[w].target.id,
           removed |-> Len(ledger) - Len(DeleteOne(ledger, calls[w].target.id))]]
    /\ UNCHANGED <<now, nextId, last, answer>>

SpecRace == InitRace /\ [][\E w \in Workers : FindStep(w) \/ DeleteStep(w)]_vars

(* ------------------------------ claims -------------------------------- *)

Handled == last.path # "init"

Analytical == last.path \in {"analysis", "nodata", "dashboard"}

\* The delete_expense calls of the message handled last.
DeleteCalls == {j \in 1..Len(last.log) : last.log[j].op = "delete"}

\* Records of L with the amount of the request whose item name contains the
\* fragment, case-insensitively.
ContainingFragment(L, data) ==
    {k \in 1..Len(L) :
        L[k].a = data.a /\ Contains(StrLower(data.i), StrLower(L[k].i))}

\* The call removed exactly record k of M, a record of M with the latest date.
RemovedLatestOf(c, M) ==
    \E k \in M :
        /\ \A m \in M : c.before[m].date <= c.before[k].date
        /\ c.after = RemoveAt(c.before, k)
        /\ Len(c.after) = Len(c.before) - 1
        /\ c.found /\ c.item = c.before[k].i /\ c.date = c.before[k].date

\* C1 as stated: a delete_expense call on a ledger with two or more records
\* of the request's amount whose item name contains the fragment removes
\* exactly one record, one of those with the latest timestamp; every other
\* record stays.
C1_ContainingLatestRemoved ==
    \A j \in DeleteCalls :
        Cardinality(ContainingFragment(last.log[j].before, last.log[j].data)) >= 2
            => RemovedLatestOf(last.log[j], ContainingFragment(last.log[j].before,
                                                               last.log[j].data))

\* C1 amended: a delete_expense call on a ledger with two or more records the
\* query selects (same amount, item name found by the fragment read as a
\* case-insensitive regular expression) removes exactly one record, one of
\* the selected records with the latest timestamp; every other record stays
\* and the count goes down by one.
C1_LatestMatchRemoved ==
    \A j \in DeleteCalls :
        Cardinality(Matches(last.log[j].before, last.log[j].data)) >= 2
            => RemovedLatestOf(last.log[j], Matches(last.log[j].before, last.log[j].data))

\* A delete with three stored records, two or more selected and one not,
\* where an older selected record stays.
C1_Witness ==
    \E j \in DeleteCalls :
        /\ Len(last.log[j].before) = 3
        /\ Cardinality(Matches(last.log[j].before, last.log[j].data)) = 2
        /\ \E k \in Matches(last.log[j].before, last.log[j].data) :
              last.log[j].before[k].date < last.log[j].date
        /\ Len(last.log[j].after) = 2

\* C2: a delete_expense call no stored record matches returns
\* (False, None, None) and leaves the ledger as it was; the same call made
\* again gives the same result and the same ledger.
C2_NotFoundLeavesLedger ==
    \A j \in DeleteCalls :
        Matches(last.log[j].before, last.log[j].data) = {}
            => /\ ~last.log[j].found
               /\ last.log[j].item = None
               /\ last.log[j].date = NoDate
               /\ last.log[j].after = last.log[j].before
               /\ \A m \in DeleteCalls :
                     (m = j + 1 /\ last.log[m].data = last.log[j].data)
                        => /\ ~last.log[m].found
                           /\ last.log[m].item = None
                           /\ last.log[m].date = NoDate
                           /\ last.log[m].after = last.log[j].before

\* The same unmatched delete made twice on a ledger that holds a record of
\* the requested amount.
C2_Witness ==
    /\ Len(last.log) = 2
    /\ DeleteCalls = {1, 2}
    /\ last.log[1].data = last.log[2].data
    /\ Matches(last.log[1].before, last.log[1].data) = {}
    /\ \E k \in 1..Len(ledger) : ledger[k].a = last.log[1].data.a
    /\ ledger = last.before

\* The entries of a batch that carry a non-zero amount, normalized, in order.
RECURSIVE NonZeroEntries(_)
NonZeroEntries(items) ==
    IF items = <<>> THEN <<>>
    ELSE IF HasKey(Head(items), "a") /\ FloatOf(Head(items).a) # 0
         THEN <<NormalizeEntry(Head(items))>> \o NonZeroEntries(Tail(items))
         ELSE NonZeroEntries(Tail(items))

\* C3: of a batch none of whose entries fails to convert, the extraction
\* returns the entries with a non-zero amount, in order, and drops the
\* entries whose amount is missing or zero; no stored record has amount zero.
C3_ZeroAndMissingDropped ==
    /\ \A k \in 1..Len(ledger) : ledger[k].a # 0
    /\ (Handled /\ last.resp.kind = "list"
          /\ \A k \in 1..Len(last.resp.items) : ~EntryRaises(last.resp.items[k]))
         => ParseExpenseWithGemini(last.resp) = NonZeroEntries(last.resp.items)

\* C4: handle_message ends without an exception leaving it.
C4_NoUncaughtException == ~last.raised

\* filters['categories'] names the category of the row, in any letter case,
\* or is empty.
InCategories(f, row) ==
    \/ Len(f.categories) = 0
    \/ \E k \in 1..Len(f.categories) : StrLower(f.categories[k]) = StrLower(row.c)

\* The calendar day of the row lies within start_date..end_date.
InDayRange(f, row) ==
    /\ f.start_date = NoDay \/ f.start_date <= DayOf(row.date)
    /\ f.end_date = NoDay \/ DayOf(row.date) <= f.end_date

RECURSIVE SumWhere(_, _)
SumWhere(rows, f) ==
    IF rows = <<>> THEN 0
    ELSE (IF InCategories(f, Head(rows)) /\ InDayRange(f, Head(rows))
          THEN Head(rows).a ELSE 0) + SumWhere(Tail(rows), f)

\* C5: the total of an answer is the sum of the amounts of exactly the
\* records whose category is in the filter's list (any letter case, empty
\* list = all) and whose date lies within the date bounds.
C5_TotalIsFilteredSum ==
    answer.kind = "answer" => answer.total = SumWhere(ledger, answer.fr.f)

\* C6: the date bounds are inclusive at both ends: a record of a selected
\* category whose timestamp falls on the day start_date or on the day
\* end_date, at any time of that day, is kept by the filter.
C6_BoundsInclusive ==
    answer.kind = "answer" =>
        \A k \in 1..Len(ledger) :
            (/\ InCategories(answer.fr.f, ledger[k])
             /\ InDayRange(answer.fr.f, ledger[k])
             /\ DayOf(ledger[k].date) \in {answer.fr.f.start_date, answer.fr.f.end_date})
                => \E m \in 1..Len(answer.kept) : answer.kept[m] = ledger[k]

\* C7: a message the inference marks is_chat takes the analytical path and
\* neither inserts nor deletes a record.
C7_ChatSignalIsAnalytical ==
    (Handled /\ IsChat(last.resp)) => (Analytical /\ ledger = last.before)

\* "?" in the text, or how or total in it in any letter case.
AsksQuestion(text) ==
    \/ \E k \in 1..Len(text) : text[k] = "?"
    \/ Contains(<<"h", "o", "w">>, StrLower(text))
    \/ Contains(<<"t", "o", "t", "a", "l">>, StrLower(text))

\* The text has the shape <description> <number>.
TrailingNumber(text) == FallbackSplits(text) # {}

\* The record the fallback makes of a text of that shape.
FallbackEntry(text) ==
    LET sp == CHOOSE x \in FallbackSplits(text) :
                  \A y \in FallbackSplits(text) : x[1] <= y[1]
    IN  [action |-> "add",
         i |-> StrTitle(StrStrip(SubSeq(text, 1, sp[1]))),
         a |-> NumberValue(SubSeq(text, sp[2] + 1, TextEnd(text))),
         c |-> Chars("Miscellaneous"),
         n |-> Chars("Manual Fallback")]

\* The message handled last inserted exactly the fallback's record.
FallbackInserted ==
    /\ last.path = "transaction" /\ ~last.raised
    /\ Len(last.log) = 1 /\ last.log[1].op = "add"
    /\ last.log[1].data = FallbackEntry(last.text)
    /\ Len(ledger) = Len(last.before) + 1
    /\ SubSeq(ledger, 1, Len(last.before)) = last.before
    /\ ledger[Len(ledger)].i = FallbackEntry(last.text).i
    /\ ledger[Len(ledger)].a = FallbackEntry(last.text).a
    /\ ledger[Len(ledger)].c = Chars("Miscellaneous")
    /\ ledger[Len(ledger)].n = Chars("Manual Fallback")

\* C8 as stated: when the extraction returns no transactions, a text of the
\* trailing-number shape is inserted as one fallback record, and any other
\* text goes the analytical path and inserts nothing.
C8_FallbackAlwaysInserted ==
    (Handled /\ ParseExpenseWithGemini(last.resp) = None) =>
        IF TrailingNumber(last.text) THEN FallbackInserted
        ELSE Analytical /\ ledger = last.before

\* C8 amended: when the extraction returns no transactions, a text of the
\* trailing-number shape is inserted as one fallback record (title-cased
\* description, the number, Miscellaneous, Manual Fallback) unless it holds a
\* question mark, how or total; such a text, and a text of any other shape,
\* goes the analytical path and inserts nothing.
C8_FallbackInsertedUnlessQuestion ==
    (Handled /\ ParseExpenseWithGemini(last.resp) = None) =>
        IF TrailingNumber(last.text) /\ ~AsksQuestion(last.text) THEN FallbackInserted
        ELSE Analytical /\ ledger = last.before

\* A failed extraction followed by the insert of the fallback's record.
C8_Witness ==
    /\ last.resp.kind = "error"
    /\ TrailingNumber(last.text)
    /\ FallbackInserted
    /\ ledger[Len(ledger)].i = Chars("Tea")

\* C9: a message holding a question mark, how or total takes the analytical
\* path even when the extraction returned transactions; it inserts and
\* deletes nothing.
C9_QuestionIsAnalytical ==
    (Handled /\ AsksQuestion(last.text)) =>
        (Analytical /\ last.log = <<>> /\ ledger = last.before)

\* A message with total in it, for which the extraction returned an add,
\* analysed against a ledger that holds records.
C9_Witness ==
    /\ Contains(Chars("total"), last.text)
    /\ ParseExpenseWithGemini(last.resp) # None
    /\ ~IsDelete(ParseExpenseWithGemini(last.resp)[1])
    /\ last.path = "analysis"
    /\ ledger # <<>>

\* C10: every stored record has a category of the taxonomy.
C10_CategoriesInTaxonomy ==
    \A k \in 1..Len(ledger) : ledger[k].c \in Taxonomy

\* The entry is valid: an object whose amount converts to a non-zero number.
ValidEntry(e) == HasKey(e, "a") /\ FloatOk(e.a) /\ FloatOf(e.a) # 0

\* C11: each entry of a batch is validated on its own: every valid entry of
\* a batch is returned, normalized, whatever the other entries are; an entry
\* whose amount does not convert (100/2) or that is not an object takes no
\* valid entry with it and never makes the extraction return no transactions.
C11_InvalidEntryDroppedAlone ==
    (Handled /\ last.resp.kind = "list") =>
        \A k \in 1..Len(last.resp.items) :
            ValidEntry(last.resp.items[k]) =>
                /\ ParseExpenseWithGemini(last.resp) # None
                /\ \E m \in 1..Len(ParseExpenseWithGemini(last.resp)) :
                      ParseExpenseWithGemini(last.resp)[m]
                          = NormalizeEntry(last.resp.items[k])

\* C12: when the filter inference fails or its output does not decode,
\* get_chat_response still computes its result, with the widest filter: every
\* given record is kept, the total is the sum over all of them, and the call
\* does not end in the error text (the formatting inference answering).
C12_FilterFailureUsesWidestFilter ==
    (answer.kind \in {"answer", "error"} /\ answer.fr.kind = "error") =>
        /\ answer.kind = "answer"
        /\ answer.kept = ledger
        /\ answer.total = SumAmounts(ledger)

\* get_chat_response has been called.
Queried == answer.kind # "none"

\* The call decoded a filter and computed total_sum and breakdown_text.
Computed == answer.fr.kind = "dict"

\* breakdown_text lists no item and no category.
EmptyBreakdown ==
    \/ answer.breakdown.shape = "details" /\ answer.breakdown.rows = <<>>
    \/ answer.breakdown.shape = "groups" /\ DOMAIN answer.breakdown.groups = {}

\* No given record is of a category of the filter and within its days.
MatchesNoRecord(f) ==
    \A k \in 1..Len(ledger) : ~(InCategories(f, ledger[k]) /\ InDayRange(f, ledger[k]))

AddCalls == {j \in 1..Len(last.log) : last.log[j].op = "add"}

FoundDeleteCalls == {j \in DeleteCalls : last.log[j].found}

\* The record call j inserted is in the ledger.
StillStored(j) ==
    \E m \in 1..Len(ledger) :
        /\ ledger[m].id = last.log[j].id
        /\ ledger[m].i = last.log[j].data.i
        /\ ledger[m].a = last.log[j].data.a

\* C14: when applying entry k of a batch fails, entries 1..k-1 have been
\* applied in batch order and their inserts stay (a record inserted by one
\* of them is gone only if a later one of them deleted it), and no entry
\* after k has been applied: the ledger holds the earlier ledger's records,
\* plus one per earlier insert, minus one per earlier successful delete.
C14_NoRollbackNoContinuation ==
    (last.path = "transaction" /\ last.raised) =>
        /\ Len(last.log) < Len(ParsedList(last.text, last.resp))
        /\ \A j \in 1..Len(last.log) :
              last.log[j].data = ParsedList(last.text, last.resp)[j]
        /\ \A j \in AddCalls :
              StillStored(j) \/ \E m \in FoundDeleteCalls :
                                    m > j /\ last.log[m].id = last.log[j].id
        /\ Len(ledger) = Len(last.before) + Cardinality(AddCalls)
                            - Cardinality(FoundDeleteCalls)
        /\ \A m \in 1..Len(ledger) :
              \/ \E j \in AddCalls : ledger[m].id = last.log[j].id
              \/ \E n \in 1..Len(last.before) : last.before[n] = ledger[m]

\* A batch of three whose second entry failed: the first entry's record is
\* stored, the third entry was not applied.
C14_Witness ==
    /\ last.path = "transaction" /\ last.raised
    /\ Len(ParsedList(last.text, last.resp)) = 3
    /\ Len(last.log) = 1 /\ AddCalls = {1}
    /\ StillStored(1)
    /\ Len(ledger) = Len(last.before) + 1
    /\ Len(last.before) >= 1

\* The script has at most two failing calls, at its start, and answers from
\* then on.
TransientFailures(sc) ==
    \E n \in 0..2 :
        /\ \A k \in 1..Len(sc) : (k <= n) => sc[k] = "fail"
        /\ \A k \in 1..Len(sc) : (k > n) => sc[k] = "ok"

\* C15: get_chat_response tries a failing inference call up to three times,
\* so that over stored records one or two failures followed by answers still
\* give an answer; the extraction is tried once, and its failure sends the
\* text to the manual fallback at once.
C15_ChatRetriesExtractionFallsBack ==
    /\ (last.path = "chat" /\ ledger # <<>> /\ TransientFailures(last.resp.script))
          => answer.kind = "answer"
    /\ (last.path \in {"transaction", "analysis", "nodata"}
          /\ last.resp.script[1] = "fail")
          => IF TrailingNumber(last.text) /\ ~AsksQuestion(last.text)
             THEN FallbackInserted
             ELSE Analytical /\ ledger = last.before

\* C16: every stored record of category Debt or Loan Given has a positive
\* amount, whatever the inference answered.
C16_DebtAndLoanGivenPositive ==
    \A k \in 1..Len(ledger) :
        ledger[k].c \in {Chars("Debt"), Chars("Loan Given")} => ledger[k].a > 0

\* C17: of a response text made of a JSON array of several objects with
\* fences or prose before or after it, clean_json_string returns the whole
\* array and nothing else.
C17_WholeArrayIsolated ==
    (answer.kind = "cleaned" /\ last.resp.payload.several) =>
        answer.text = last.resp.payload.json

\* breakdown_text carries totals by category, an itemized listing.
CarriesGroups == "groups" \in DOMAIN answer.breakdown

CarriesListing == "rows" \in DOMAIN answer.breakdown

RECURSIVE SumOver(_, _)
SumOver(g, S) ==
    IF S = {} THEN 0
    ELSE LET c == CHOOSE x \in S : TRUE IN g[c] + SumOver(g, S \ {c})

\* The totals by category cover the categories of the kept records and add
\* up to the total.
GroupsAddUp ==
    /\ DOMAIN answer.breakdown.groups = {answer.kept[k].c : k \in 1..Len(answer.kept)}
    /\ SumOver(answer.breakdown.groups, DOMAIN answer.breakdown.groups) = answer.total

\* The listing holds the kept records, each once, latest timestamp first.
ListingLatestFirst ==
    /\ Len(answer.breakdown.rows) = Len(answer.kept)
    /\ \E p \in Permutations(1..Len(answer.kept)) :
          \A k \in 1..Len(answer.kept) :
              /\ answer.breakdown.rows[k].date = answer.kept[p[k]].date
              /\ answer.breakdown.rows[k].i = answer.kept[p[k]].i
              /\ answer.breakdown.rows[k].a = answer.kept[p[k]].a
    /\ \A k \in 1..(Len(answer.breakdown.rows) - 1) :
          answer.breakdown.rows[k].date >= answer.breakdown.rows[k + 1].date

\* C18 as stated: what the aggregator computes always carries the totals by
\* category, which add up to the total; it carries a listing only for the
\* shape breakdown, and that listing is ordered latest timestamp first.
C18_AlwaysCategoryTotals ==
    Computed =>
        /\ CarriesGroups /\ GroupsAddUp
        /\ CarriesListing => (answer.fr.f.intent = "breakdown" /\ ListingLatestFirst)

\* C18 amended: the aggregator always computes the total; for the shape
\* breakdown it carries the listing of the kept records, latest timestamp
\* first, and no totals by category; for any other shape it carries the
\* totals by category, which add up to the total, and no listing.
C18_CategoryTotalsOrListing ==
    Computed =>
        /\ answer.total = SumAmounts(answer.kept)
        /\ IF answer.fr.f.intent = "breakdown"
           THEN CarriesListing /\ ~CarriesGroups /\ ListingLatestFirst
           ELSE CarriesGroups /\ ~CarriesListing /\ GroupsAddUp

\* A breakdown of two records of different timestamps, listed latest first,
\* against the order in which they are stored.
C18_Witness ==
    /\ answer.kind = "answer"
    /\ answer.fr.f.intent = "breakdown"
    /\ Len(answer.kept) = 2
    /\ answer.kept[1].date < answer.kept[2].date
    /\ answer.breakdown.rows[1].date > answer.breakdown.rows[2].date

\* Call j inserted a record and call j + 1, the next entry of the batch, is
\* a delete whose query selects that record.
AddThenMatchingDelete(j) ==
    /\ j \in AddCalls /\ j + 1 \in DeleteCalls
    /\ Len(last.log[j].after) \in Matches(last.log[j + 1].before, last.log[j + 1].data)

\* C19 as stated: the entries of a batch are applied in order, each on the
\* ledger the one before left; a delete that follows an add it matches
\* removes the record just added and leaves the ledger as it was before the
\* add.
C19_DeleteRemovesJustAdded ==
    \A j \in 1..Len(last.log) :
        /\ (j > 1) => last.log[j].before = last.log[j - 1].after
        /\ AddThenMatchingDelete(j) =>
              /\ last.log[j + 1].found
              /\ last.log[j + 1].id = last.log[j].id
              /\ last.log[j + 1].after = last.log[j].before

\* C19 amended: ... a delete that follows an add it matches removes one
\* matching record of the latest timestamp and leaves the record count as it
\* was before the add; the record removed is the one just added whenever no
\* older matching record carries the same timestamp.
C19_DeleteRemovesLatestAfterAdd ==
    \A j \in 1..Len(last.log) :
        /\ (j > 1) => last.log[j].before = last.log[j - 1].after
        /\ AddThenMatchingDelete(j) =>
              /\ last.log[j + 1].found
              /\ Len(last.log[j + 1].after) = Len(last.log[j].before)
              /\ \A m \in Matches(last.log[j + 1].before, last.log[j + 1].data) :
                    last.log[j + 1].before[m].date <= last.log[j + 1].date
              /\ (\A m \in Matches(last.log[j].before, last.log[j + 1].data) :
                      last.log[j].before[m].date < last.log[j].date)
                    => /\ last.log[j + 1].id = last.log[j].id
                       /\ last.log[j + 1].after = last.log[j].before

\* An add followed by a matching delete on a ledger that holds an older
\* matching record: the new record is removed, the older one stays.
C19_Witness ==
    /\ Len(last.log) = 2 /\ AddThenMatchingDelete(1)
    /\ Matches(last.before, last.log[2].data) # {}
    /\ last.log[2].id = last.log[1].id
    /\ ledger = last.before

\* The delete_expense calls that have returned found = true.
Succeeded == {w \in Workers : calls[w].pc = "done" /\ calls[w].found}

\* C20: a delete_expense call that returns found = true has removed exactly
\* one record, also when another call interleaves between its find and its
\* delete_one; no two calls report success for the same stored record.
C20_SuccessRemovedOneRecord ==
    /\ \A w \in Succeeded : calls[w].removed = 1
    /\ \A v, w \in Succeeded : (v # w) => calls[v].id # calls[w].id

====
